---- MODULE Spec2Model ----
(***************************************************************************)
(* A model of src/blockchain.py: the ledger (Blockchain) with its pending  *)
(* transactions, the proof-of-work puzzle, the chain validator and the     *)
(* longest-valid-chain conflict resolution against the registered nodes.   *)
(*                                                                         *)
(* Python values that may stand in the same field with different types     *)
(* (previous_hash is the int 1 in the genesis block, a hex digest in the   *)
(* others, and whatever a peer sends) are tagged tuples: <<"int", 1>>,     *)
(* <<"sha256", data>>, <<"str", s>>, <<"None">>.                           *)
(***************************************************************************)
EXTENDS Integers, Sequences, FiniteSets, TLC

VARIABLES chain, unverified_transactions, nodes, call, old, eval, heap, network

vars == <<chain, unverified_transactions, nodes, call, old, eval, heap, network>>

\* What the handlers of the ledger leave alone: the evaluation of a function
\* on its own (eval).
aside == <<eval, heap, network>>

\* ------------------------------------------------------------------ bounds

\* Blocks the local node seals on top of what it has (mine, new_block).
MaxChain == 2
\* Blocks mined in a row where only /transactions and /mine are driven.
MaxMined == 4
\* Transactions a client may leave pending (the mining fee comes on top).
MaxPending == 1
\* Blocks on the chain of the server that runs a statement at a time.
MaxHeapChain == 3
\* Requests the servers of the network take, all together.
MaxNetRequests == 4

\* ------------------------------------------------------------------ inputs

None == <<"None">>
NODE_IDENTIFIER == "node"
\* What time() may return.  One value: a timestamp only enters a block and
\* its hash, and blocks already differ by their transactions.
Timestamps == {1}
Addresses == {"n1", "n2"}
Senders == {"A"}
Recipients == {"B"}
Amounts == {-5, 10}

Last(s) == s[Len(s)]

\* ------------------------------------------------------------------ hashing

\* str(n) of a natural number: its decimal digits, most significant first.
RECURSIVE Str(_)
Str(n) == IF n < 10 THEN <<n>> ELSE Str(n \div 10) \o <<n % 10>>

\* sha256(data).hexdigest(), as an ideal digest: equal exactly when the data
\* are equal.  Its leading hex digits are read through HexDigit.
hash(data) == <<"sha256", data>>

\* The running value the leading hex digits of a digest of a digit string are
\* drawn from: a small mixing function standing for SHA-256, which TLC cannot
\* evaluate.  It depends on every character of the string.
RECURSIVE Mix(_)
Mix(s) == IF s = <<>> THEN 5 ELSE (Mix(SubSeq(s, 1, Len(s) - 1)) * 7 + Last(s) + 3) % 16

\* The i-th hex digit (0..15) of a digest of a digit string.
HexDigit(digest, i) == (Mix(digest[2]) * (2 * i - 1)) % 16

\* guess[:n]
Prefix(digest, n) == [i \in 1..n |-> HexDigit(digest, i)]

\* The number of leading zero hex digits a proof needs.
Difficulty == 4

Zeros(n) == [i \in 1..n |-> 0]

valid_proof(last_proof, proof) ==
    LET guess == hash(Str(last_proof) \o Str(proof))
    IN  Prefix(guess, Difficulty) = Zeros(Difficulty)

RECURSIVE pow_loop(_, _)
pow_loop(last_proof, proof) ==
    IF valid_proof(last_proof, proof) = FALSE
    THEN pow_loop(last_proof, proof + 1)
    ELSE proof

\* proof_of_work with the search starting at 1.
proof_of_work_from_one(last_proof) == pow_loop(last_proof, 1)

proof_of_work(last_proof) == pow_loop(last_proof, 0)

\* Block.to_json(): the fields in declaration order.
to_json(block) ==
    <<block.index, block.timestamp, block.transactions, block.proof,
      block.previous_hash>>

\* json.dumps of a string: the string as a JSON string literal.
dumps(s) == <<"json", s>>

block_hash(block) == hash(dumps(to_json(block)))

RECURSIVE valid_chain_from(_, _)
valid_chain_from(c, i) ==
    IF i > Len(c) THEN TRUE
    ELSE IF c[i].previous_hash /= block_hash(c[i - 1]) THEN FALSE
    ELSE IF ~valid_proof(c[i - 1].proof, c[i].proof) THEN FALSE
    ELSE valid_chain_from(c, i + 1)

\* valid_chain without the check of line 99, and without that of line 101.
RECURSIVE proofs_valid_from(_, _)
proofs_valid_from(c, i) ==
    IF i > Len(c) THEN TRUE
    ELSE IF ~valid_proof(c[i - 1].proof, c[i].proof) THEN FALSE
    ELSE proofs_valid_from(c, i + 1)

valid_chain_proofs_only(c) == proofs_valid_from(c, 2)

RECURSIVE links_valid_from(_, _)
links_valid_from(c, i) ==
    IF i > Len(c) THEN TRUE
    ELSE IF c[i].previous_hash /= block_hash(c[i - 1]) THEN FALSE
    ELSE links_valid_from(c, i + 1)

valid_chain_links_only(c) == links_valid_from(c, 2)

valid_chain(c) == valid_chain_from(c, 2)

\* ------------------------------------------------------------------ ledger

Transaction(sender, recipient, amount) ==
    [sender |-> sender, recipient |-> recipient, amount |-> amount]

Block(index, timestamp, transactions, proof, previous_hash) ==
    [index |-> index, timestamp |-> timestamp, transactions |-> transactions,
     proof |-> proof, previous_hash |-> previous_hash]

\* The ledger a method works on: self.chain and self.unverified_transactions.
Ledger(c, pending) == [chain |-> c, unverified_transactions |-> pending]

\* What a method leaves: the ledger, and whether it raised.
Outcome(ledger, raised) == [ledger |-> ledger, raised |-> raised]

last_block(ledger) == Last(ledger.chain)

\* Python's truth value of an argument, as `or` reads it.
Falsy(v) == v \in {None, <<"str", "">>, <<"int", 0>>}

\* new_transaction with sender and recipient passed in each other's place.
new_transaction_swapped(ledger, sender, recipient, amount) ==
    [ledger EXCEPT !.unverified_transactions =
        Append(@, [sender |-> recipient, recipient |-> sender, amount |-> amount])]

new_transaction(ledger, sender, recipient, amount) ==
    [ledger EXCEPT !.unverified_transactions =
        Append(@, Transaction(sender, recipient, amount))]

\* new_block without line 156: the pending transactions are not cleared.
new_block_keeps_pending(ledger, proof, previous_hash, now) ==
    IF previous_hash \in {<<"None">>, <<"str", "">>, <<"int", 0>>}
    THEN [ledger |-> ledger, raised |-> TRUE]
    ELSE LET block == Block(Len(ledger.chain) + 1, now,
                            ledger.unverified_transactions, proof, previous_hash)
         IN  [ledger |-> [ledger EXCEPT !.chain = Append(@, block)], raised |-> FALSE]

\* new_block as if line 156 came before the block is built: the block is
\* sealed empty.
new_block_seals_none(ledger, proof, previous_hash, now) ==
    IF previous_hash \in {<<"None">>, <<"str", "">>, <<"int", 0>>}
    THEN [ledger |-> ledger, raised |-> TRUE]
    ELSE LET block == Block(Len(ledger.chain) + 1, now, <<>>, proof, previous_hash)
         IN  [ledger |-> [chain |-> Append(ledger.chain, block),
                          unverified_transactions |-> <<>>],
              raised |-> FALSE]

\* `previous_hash or self.last_block_hash`: Blockchain has no attribute
\* last_block_hash, so a falsy previous_hash raises AttributeError while the
\* arguments of Block(...) are evaluated, before anything is assigned.
new_block(ledger, proof, previous_hash, now) ==
    IF Falsy(previous_hash)
    THEN Outcome(ledger, TRUE)
    ELSE LET block == Block(Len(ledger.chain) + 1, now,
                            ledger.unverified_transactions, proof, previous_hash)
         IN  Outcome(Ledger(Append(ledger.chain, block), <<>>), FALSE)

GenesisProof == 100
GenesisPreviousHash == <<"int", 1>>

genesis_block(ledger, now) == new_block(ledger, GenesisProof, GenesisPreviousHash, now)

\* Blockchain(): empty collections, then the genesis block.
Blockchain(now) == genesis_block(Ledger(<<>>, <<>>), now).ledger

\* /mine linking the new block to the first block instead of the last one.
mine_first_hash(ledger, now) ==
    LET last_proof == last_block(ledger).proof
        proof      == proof_of_work(last_proof)
        with_fee   == new_transaction(ledger, "0", NODE_IDENTIFIER, 1)
        previous_hash == block_hash(ledger.chain[1])
    IN  new_block(with_fee, proof, previous_hash, now)

\* The /mine handler.
mine(ledger, now) ==
    LET last       == last_block(ledger)
        last_proof == last.proof
        proof      == proof_of_work(last_proof)
        with_fee   == new_transaction(ledger, "0", NODE_IDENTIFIER, 1)
        previous_hash == block_hash(last)
    IN  new_block(with_fee, proof, previous_hash, now)

\* ------------------------------------------------------------------ peers

\* What requests.get gives for one node: a transport error (it raises), or a
\* response with a status code whose JSON body either decodes into blocks or
\* does not.
Response(error, status_code, wellformed, blocks) ==
    [error |-> error, status_code |-> status_code, wellformed |-> wellformed,
     chain |-> blocks]

\* Block.load: a Block from the decoded dict, field by field.
load(data) ==
    Block(data.index, data.timestamp,
          [i \in DOMAIN data.transactions |->
              Transaction(data.transactions[i].sender,
                          data.transactions[i].recipient,
                          data.transactions[i].amount)],
          data.proof, data.previous_hash)

load_many(items) == [i \in DOMAIN items |-> load(items[i])]

\* Line 177 without the validity check, with >= for >, without the length check.
replaces_any_longer(fetched, current) == Len(fetched) > Len(current)

replaces_or_equal(fetched, current) == Len(fetched) >= Len(current) /\ valid_chain(fetched)

replaces_any_valid(fetched, current) == valid_chain(fetched)

\* Line 177: whether a fetched chain replaces the current one.
replaces(fetched, current) == Len(fetched) > Len(current) /\ valid_chain(fetched)

ResolveOutcome(c, replaced, raised) == [chain |-> c, replaced |-> replaced, raised |-> raised]

\* The loop of resolve_conflicts over the responses of the nodes, in the
\* order the set is iterated.  A transport error and an undecodable body
\* raise out of the loop, leaving self.chain as it is by then.
RECURSIVE resolve_loop(_, _, _, _)
resolve_loop(current, replaced, responses, i) ==
    IF i > Len(responses) THEN ResolveOutcome(current, replaced, FALSE)
    ELSE LET response == responses[i] IN
         IF response.error THEN ResolveOutcome(current, FALSE, TRUE)
         ELSE IF response.status_code = 200
         THEN IF ~response.wellformed THEN ResolveOutcome(current, FALSE, TRUE)
              ELSE LET fetched == load_many(response.chain) IN
                   IF replaces(fetched, current)
                   THEN resolve_loop(fetched, TRUE, responses, i + 1)
                   ELSE resolve_loop(current, replaced, responses, i + 1)
         ELSE resolve_loop(current, replaced, responses, i + 1)

\* resolve_conflicts with `replaced` starting as True.
resolve_conflicts_replaced_true(current, responses) == resolve_loop(current, TRUE, responses, 1)

resolve_conflicts(current, responses) == resolve_loop(current, FALSE, responses, 1)

\* Chains a peer may serve.  Seal is what an honest peer's /mine appends.
Seal(c, transactions) ==
    Append(c, Block(Len(c) + 1, 1, transactions,
                    proof_of_work(Last(c).proof), block_hash(Last(c))))

\* A proof that does not solve the puzzle after last_proof.
Unsatisfying(last_proof) == CHOOSE p \in 0..15 : ~valid_proof(last_proof, p)

PeerGenesis == Blockchain(1).chain
PeerA2 == Seal(PeerGenesis, <<>>)
PeerB2 == Seal(PeerGenesis, <<Transaction("A", "B", 10)>>)
PeerA3 == Seal(PeerA2, <<>>)
PeerB3 == Seal(PeerB2, <<>>)
PeerBadProof3 ==
    Append(PeerA2, Block(3, 1, <<>>, Unsatisfying(Last(PeerA2).proof),
                         block_hash(Last(PeerA2))))
PeerBadLink3 ==
    Append(PeerA2, Block(3, 1, <<>>, proof_of_work(Last(PeerA2).proof),
                         <<"str", "bad">>))
PeerForgedIndex2 == <<PeerGenesis[1], [PeerA2[2] EXCEPT !.index = 7]>>
PeerNoGenesis2 == Seal(<<Block(1, 1, <<>>, 5, <<"str", "x">>)>>, <<>>)

PeerChains ==
    {<<>>, PeerA2, PeerB2, PeerA3, PeerB3, PeerBadProof3,
     PeerBadLink3, PeerForgedIndex2, PeerNoGenesis2}

Responses ==
    {Response(TRUE, 0, FALSE, <<>>),
     Response(FALSE, 500, FALSE, <<>>),
     Response(FALSE, 200, FALSE, <<>>)}
    \cup {Response(FALSE, 200, TRUE, c) : c \in PeerChains}

\* ------------------------------------------------------------------ objects
\* The same ledger with its lists as objects: `lists` holds the content of
\* every list object by identity, a block's transactions and the ledger's
\* unverified_transactions are identities of such lists, and `handler` is
\* the request the server is in, with the line it has reached.

HeapIdle == [op |-> "idle"]

Heap(lists, pending, c, handler) ==
    [lists |-> lists, unverified_transactions |-> pending, chain |-> c,
     handler |-> handler]

\* A new empty list object; its identity is Len(h.lists) + 1.
allocate(h, content) == [h EXCEPT !.lists = Append(@, content)]

\* The chain of the heap with every block's transactions read through.
Deref(h) ==
    [i \in DOMAIN h.chain |->
        [h.chain[i] EXCEPT !.transactions = h.lists[h.chain[i].transactions]]]

\* Lines 152-155: the block holds the very list that is pending.
heap_build_block(h, proof, previous_hash, now) ==
    Block(Len(h.chain) + 1, now, h.unverified_transactions, proof, previous_hash)

\* new_block without line 156: the pending list stays the block's list.
heap_keep_binding(h) == h

\* Line 156: self.unverified_transactions is bound to a new empty list.
heap_rebind(h) ==
    [allocate(h, <<>>) EXCEPT !.unverified_transactions = Len(h.lists) + 1]

\* Line 157.
heap_append(h, block) == [h EXCEPT !.chain = Append(@, block)]

\* Lines 144-145: append to the list that is pending now.
heap_new_transaction(h, sender, recipient, amount) ==
    [h EXCEPT !.lists[h.unverified_transactions] =
                  Append(@, Transaction(sender, recipient, amount))]

\* Line 178 after Block.load_many: every fetched block has a list of its own.
RECURSIVE heap_adopt(_, _, _)
heap_adopt(h, fetched, i) ==
    IF i > Len(fetched) THEN h
    ELSE heap_adopt(
            [allocate(h, fetched[i].transactions) EXCEPT
                !.chain = Append(@, [fetched[i] EXCEPT
                                        !.transactions = Len(h.lists) + 1])],
            fetched, i + 1)

\* The heap after Blockchain(): the genesis block holds the first list, and
\* the pending list is the second.
HeapBlockchain(now) ==
    LET h0 == Heap(<<<<>>>>, 1, <<>>, HeapIdle)
        block == heap_build_block(h0, GenesisProof, GenesisPreviousHash, now)
    IN  heap_append(heap_rebind(h0), block)

\* ------------------------------------------------------------------ nodes
\* One running server: its ledger, its registered nodes, and the locals of
\* the /mine and the /consensus request in progress, and the number of requests
\* it has taken.
NotRunning == [line |-> 0]

Node(ledger, registered, mining, resolving) ==
    [chain |-> ledger.chain,
     unverified_transactions |-> ledger.unverified_transactions,
     nodes |-> registered, mining |-> mining, resolving |-> resolving,
     requests |-> 0]

\* A server that takes a request whatever it is running.
IdleAlways(node) == TRUE

\* The handlers are plain functions (def, not async def) of one Sanic
\* event loop: the server takes a request, GET /chain included, only when it
\* runs no handler.
Idle(node) == node.mining = NotRunning /\ node.resolving = NotRunning

\* The orders in which `for node in self.nodes` may go through the set.
Orders(S) ==
    {order \in [1..Cardinality(S) -> S] :
        \A i, j \in 1..Cardinality(S) : order[i] = order[j] => i = j}

\* ------------------------------------------------------------------ state

\* The ledger the handlers share: the module-level `blockchain`.
blockchain == Ledger(chain, unverified_transactions)

\* The last call: its name, whether it raised, what resolve_conflicts
\* returned and the previous_hash argument new_block was given.
Call(op, raised, replaced, previous_hash) ==
    [op |-> op, raised |-> raised, replaced |-> replaced,
     previous_hash |-> previous_hash]

Returned(op) == Call(op, FALSE, FALSE, None)

\* The responses resolve_conflicts may get from the registered nodes, in
\* the order it iterates over them.
ResponsesOf(registered) == [1..Cardinality(registered) -> Responses]

\* No function has been evaluated on its own.
NoEvaluation == [fn |-> "none"]

Init ==
    \E now \in Timestamps :
        /\ chain = Blockchain(now).chain
        /\ unverified_transactions = Blockchain(now).unverified_transactions
        /\ nodes = {}
        /\ call = Returned("__init__")
        /\ old = Ledger(<<>>, <<>>)
        /\ eval = NoEvaluation
        /\ heap = HeapBlockchain(now)
        /\ network = [n \in Addresses |-> Node(Blockchain(now), {}, NotRunning, NotRunning)]

\* The ledger a call leaves; `old` keeps the one it found.
Commit(ledger) ==
    /\ chain' = ledger.chain
    /\ unverified_transactions' = ledger.unverified_transactions
    /\ old' = blockchain
    /\ UNCHANGED aside

NewTransaction ==
    /\ Len(unverified_transactions) < MaxPending
    /\ \E sender \in Senders, recipient \in Recipients, amount \in Amounts :
          Commit(new_transaction(blockchain, sender, recipient, amount))
    /\ call' = Returned("new_transaction")
    /\ UNCHANGED nodes

NewBlock ==
    /\ Len(chain) < MaxChain
    /\ \E now \in Timestamps,
          proof \in {proof_of_work(last_block(blockchain).proof),
                     Unsatisfying(last_block(blockchain).proof)},
          previous_hash \in {None, block_hash(last_block(blockchain))} :
          LET out == new_block(blockchain, proof, previous_hash, now) IN
          /\ Commit(out.ledger)
          /\ call' = Call("new_block", out.raised, FALSE, previous_hash)
    /\ UNCHANGED nodes

Mine(limit) ==
    /\ Len(chain) < limit
    /\ \E now \in Timestamps :
          LET out == mine(blockchain, now) IN
          /\ Commit(out.ledger)
          /\ call' = Call("mine", out.raised, FALSE, None)
    /\ UNCHANGED nodes

RegisterNode ==
    /\ \E address \in Addresses : nodes' = nodes \cup {address}
    /\ Commit(blockchain)
    /\ call' = Returned("register_node")

\* The last_block property, read on its own.
LastBlock ==
    /\ last_block(blockchain) = chain[Len(chain)]
    /\ Commit(blockchain)
    /\ call' = Returned("last_block")
    /\ UNCHANGED nodes

\* /consensus also dropping the pending transactions found in the chain it
\* adopts.
ResolveConflictsPrunesPending ==
    /\ \E out \in {resolve_conflicts(chain, responses) :
                      responses \in ResponsesOf(nodes)} :
          /\ Commit(Ledger(out.chain,
                           IF out.replaced
                           THEN SelectSeq(unverified_transactions,
                                          LAMBDA t : \A i \in DOMAIN out.chain :
                                              \A j \in DOMAIN out.chain[i].transactions :
                                                  out.chain[i].transactions[j] /= t)
                           ELSE unverified_transactions))
          /\ call' = Call("resolve_conflicts", out.raised, out.replaced, None)
    /\ UNCHANGED nodes

ResolveConflicts ==
    /\ \E out \in {resolve_conflicts(chain, responses) :
                      responses \in ResponsesOf(nodes)} :
          /\ Commit(Ledger(out.chain, unverified_transactions))
          /\ call' = Call("resolve_conflicts", out.raised, out.replaced, None)
    /\ UNCHANGED nodes

Next ==
    \/ NewTransaction
    \/ NewBlock
    \/ Mine(MaxChain)
    \/ RegisterNode
    \/ LastBlock
    \/ ResolveConflicts

Spec == Init /\ [][Next]_vars

\* A ledger driven only through /transactions and /mine.
MineNext ==
    \/ NewTransaction
    \/ Mine(MaxMined)

MineSpec == Init /\ [][MineNext]_vars

\* ------------------------------------------------------------------ functions

\* The functions of the module evaluated on their own, once, on arguments
\* drawn from bounded sets: eval holds the arguments and the value.

ledger_vars == <<chain, unverified_transactions, nodes, call, old>>

\* The blocks a chain under test may continue with: what /mine appends, the
\* same with a transaction and a later timestamp, a proof that does not
\* solve the puzzle, a previous_hash that is not the last block's hash, and
\* an index that is not the position.
Continuations(c) ==
    LET proof == proof_of_work(Last(c).proof)
        link  == block_hash(Last(c))
    IN  {Block(Len(c) + 1, 1, <<>>, proof, link),
         Block(Len(c) + 1, 2, <<Transaction("A", "B", 10)>>, proof, link),
         Block(Len(c) + 1, 1, <<>>, Unsatisfying(Last(c).proof), link),
         Block(Len(c) + 1, 1, <<>>, proof, <<"str", "bad">>),
         Block(7, 1, <<>>, proof, link)}

RECURSIVE ChainsOfLength(_)
ChainsOfLength(n) ==
    IF n = 0 THEN {<<>>}
    ELSE IF n = 1 THEN {PeerGenesis, <<Block(1, 1, <<>>, 5, <<"str", "x">>)>>}
    ELSE UNION {{Append(c, b) : b \in Continuations(c)} : c \in ChainsOfLength(n - 1)}

\* The longest chain given to valid_chain on its own.
MaxInputChain == 3

ChainInputs == UNION {ChainsOfLength(n) : n \in 0..MaxInputChain}

EvalValidChain ==
    /\ eval = NoEvaluation
    /\ \E c \in ChainInputs :
          eval' = [fn |-> "valid_chain", chain |-> c, value |-> valid_chain(c)]
    /\ UNCHANGED <<ledger_vars, heap, network>>

\* A chain with one field of one block replaced.
Tampered(c, i, field, v) ==
    IF field = "proof" THEN [c EXCEPT ![i].proof = v]
    ELSE [c EXCEPT ![i].previous_hash = v]

\* The proofs and hashes a tampered block is given.
TamperProofs == 0..15
TamperHashes(c) == {<<"str", "bad">>, GenesisPreviousHash} \cup {block_hash(c[i]) : i \in DOMAIN c}

\* valid_chain on a valid chain with one proof or one previous_hash replaced.
EvalTampered ==
    /\ eval = NoEvaluation
    /\ \E c \in {x \in ChainInputs : Len(x) >= 1 /\ valid_chain(x)}, i \in 1..MaxInputChain,
          field \in {"proof", "previous_hash"} :
          /\ i <= Len(c)
          /\ \E v \in IF field = "proof" THEN TamperProofs ELSE TamperHashes(c) :
                eval' = [fn |-> "tampered", original |-> c, position |-> i, field |-> field,
                         chain |-> Tampered(c, i, field, v),
                         value |-> valid_chain(Tampered(c, i, field, v))]
    /\ UNCHANGED <<ledger_vars, heap, network>>

\* The largest last_proof given to proof_of_work on its own (besides the
\* genesis proof).
MaxLastProof == 40

EvalProofOfWork ==
    /\ eval = NoEvaluation
    /\ \E last_proof \in (0..MaxLastProof) \cup {GenesisProof} :
          eval' = [fn |-> "proof_of_work", last_proof |-> last_proof,
                   value |-> proof_of_work(last_proof)]
    /\ UNCHANGED <<ledger_vars, heap, network>>

\* The amounts and pending lists given to new_transaction on its own.
NumericAmounts == {-5, 0, 10}
PendingInputs ==
    LET T == {Transaction("A", "B", a) : a \in NumericAmounts}
    IN  {<<>>} \cup {<<t>> : t \in T} \cup {<<t, u>> : t \in T, u \in T}

EvalNewTransaction ==
    /\ eval = NoEvaluation
    /\ \E pending \in PendingInputs, sender \in {"A", "B"}, recipient \in {"A", "B"},
          amount \in NumericAmounts :
          eval' = [fn |-> "new_transaction", ledger |-> Ledger(PeerGenesis, pending),
                   sender |-> sender, recipient |-> recipient, amount |-> amount,
                   value |-> new_transaction(Ledger(PeerGenesis, pending),
                                             sender, recipient, amount)]
    /\ UNCHANGED <<ledger_vars, heap, network>>

FunctionNext ==
    \/ EvalValidChain
    \/ EvalTampered
    \/ EvalProofOfWork
    \/ EvalNewTransaction

FunctionSpec == Init /\ [][FunctionNext]_vars

\* ------------------------------------------------------------------ server
\* The requests of one server, a statement at a time, over the heap.  The
\* handlers are plain functions run by one event loop: a request is taken
\* only when no handler is running.

heap_vars == <<chain, unverified_transactions, nodes, call, old, eval, network>>

HeapPending == heap.lists[heap.unverified_transactions]

\* POST /transactions, lines 198-205 and 142-145.
HeapNewTransaction ==
    /\ heap.handler = HeapIdle
    /\ Len(HeapPending) < MaxPending
    /\ \E sender \in Senders, recipient \in Recipients, amount \in Amounts :
          heap' = heap_new_transaction(heap, sender, recipient, amount)
    /\ UNCHANGED heap_vars

\* A seal request reaches new_block with the proof and the hash /mine
\* computes (lines 209-214), and builds the block (lines 152-155).
HeapNewBlockBuild ==
    /\ heap.handler = HeapIdle
    /\ Len(heap.chain) < MaxHeapChain
    /\ \E now \in Timestamps :
          LET last == Last(Deref(heap))
              block == heap_build_block(heap, proof_of_work(last.proof),
                                        block_hash(last), now)
          IN  heap' = [heap EXCEPT !.handler =
                          [op |-> "new_block", line |-> 156, block |-> block]]
    /\ UNCHANGED heap_vars

\* Line 156.
HeapNewBlockRebind ==
    /\ heap.handler.op = "new_block"
    /\ heap.handler.line = 156
    /\ heap' = [heap_rebind(heap) EXCEPT !.handler.line = 157]
    /\ UNCHANGED heap_vars

\* Lines 157-158.
HeapNewBlockAppend ==
    /\ heap.handler.op = "new_block"
    /\ heap.handler.line = 157
    /\ heap' = [heap_append(heap, heap.handler.block) EXCEPT !.handler = HeapIdle]
    /\ UNCHANGED heap_vars

\* GET /consensus that replaces the chain, lines 176-178.
HeapResolveConflicts ==
    /\ heap.handler = HeapIdle
    /\ \E fetched \in PeerChains :
          /\ replaces(fetched, Deref(heap))
          /\ heap' = heap_adopt([heap EXCEPT !.chain = <<>>], fetched, 1)
    /\ UNCHANGED heap_vars

HeapNext ==
    \/ HeapNewTransaction
    \/ HeapNewBlockBuild
    \/ HeapNewBlockRebind
    \/ HeapNewBlockAppend
    \/ HeapResolveConflicts

HeapSpec == Init /\ [][HeapNext]_vars

\* ------------------------------------------------------------------ network
\* The servers at Addresses, each with its own ledger, driven through their
\* requests; /mine and /consensus a step at a time.

network_vars == <<chain, unverified_transactions, nodes, call, old, eval, heap>>

LedgerOf(node) == Ledger(node.chain, node.unverified_transactions)

SetLedger(node, ledger) ==
    [node EXCEPT !.chain = ledger.chain,
                 !.unverified_transactions = ledger.unverified_transactions]

RECURSIVE TakenBy(_)
TakenBy(S) ==
    IF S = {} THEN 0
    ELSE LET n == CHOOSE n \in S : TRUE IN network[n].requests + TakenBy(S \ {n})

\* Server n can take a request, and what it is after taking it.
Takes(n) == Idle(network[n]) /\ TakenBy(Addresses) < MaxNetRequests

Taken(node) == [node EXCEPT !.requests = @ + 1]

\* POST /transactions at server n.
NetNewTransaction(n) ==
    /\ Takes(n)
    /\ \E sender \in Senders, recipient \in Recipients, amount \in Amounts :
          network' = [network EXCEPT ![n] = Taken(
              SetLedger(@, new_transaction(LedgerOf(@), sender, recipient, amount)))]
    /\ UNCHANGED network_vars

\* POST /nodes at server n.
NetRegisterNode(n) ==
    /\ Takes(n)
    /\ \E address \in Addresses :
          network' = [network EXCEPT ![n] = Taken([@ EXCEPT !.nodes = @ \cup {address}])]
    /\ UNCHANGED network_vars

\* GET /mine at server n, lines 209-210: the last block is read.
NetMineRead(n) ==
    /\ Takes(n)
    /\ network' = [network EXCEPT ![n] = Taken([@ EXCEPT !.mining =
                      [line |-> 211, last_block |-> last_block(LedgerOf(network[n])),
                       proof |-> 0]])]
    /\ UNCHANGED network_vars

\* Line 211: the search for the proof.
NetMineSearch(n) ==
    /\ network[n].mining /= NotRunning
    /\ network[n].mining.line = 211
    /\ network' = [network EXCEPT ![n].mining =
                      [@ EXCEPT !.line = 212,
                                !.proof = proof_of_work(
                                    network[n].mining.last_block.proof)]]
    /\ UNCHANGED network_vars

\* Lines 212-219: the fee, the hash of the block read at line 209, and
\* new_block.
NetMineSeal(n) ==
    /\ network[n].mining /= NotRunning
    /\ network[n].mining.line = 212
    /\ \E now \in Timestamps :
          LET node     == network[n]
              with_fee == new_transaction(LedgerOf(node), "0", n, 1)
              previous_hash == block_hash(node.mining.last_block)
              out      == new_block(with_fee, node.mining.proof, previous_hash, now)
          IN  network' = [network EXCEPT ![n] =
                             [SetLedger(@, out.ledger) EXCEPT !.mining = NotRunning]]
    /\ UNCHANGED network_vars

\* GET /consensus at server n, lines 171-172: the loop starts.
NetConsensus(n) ==
    /\ Takes(n)
    /\ \E order \in Orders(network[n].nodes) :
          network' = [network EXCEPT ![n] = Taken([@ EXCEPT !.resolving =
                         [line |-> 173, peers |-> order, replaced |-> FALSE]])]
    /\ UNCHANGED network_vars

\* Lines 173-179, one iteration: requests.get (no timeout) returns when the
\* server at the address has handled GET /chain (lines 193-195).
NetFetch(n) ==
    /\ network[n].resolving /= NotRunning
    /\ network[n].resolving.peers /= <<>>
    /\ LET node == network[n]
           peer == network[Head(node.resolving.peers)]
           out  == resolve_loop(node.chain, node.resolving.replaced,
                                <<Response(FALSE, 200, TRUE, peer.chain)>>, 1)
       IN  /\ Idle(peer)
           /\ network' = [network EXCEPT ![n] =
                  [@ EXCEPT !.chain = out.chain,
                            !.resolving = [@ EXCEPT !.peers = Tail(@),
                                                     !.replaced = out.replaced]]]
    /\ UNCHANGED network_vars

\* Lines 180 and 224-225: the loop is over and the response goes out.
NetReturn(n) ==
    /\ network[n].resolving /= NotRunning
    /\ network[n].resolving.peers = <<>>
    /\ network' = [network EXCEPT ![n].resolving = NotRunning]
    /\ UNCHANGED network_vars

NetStep(n) ==
    \/ NetNewTransaction(n)
    \/ NetRegisterNode(n)
    \/ NetMineRead(n)
    \/ NetMineSearch(n)
    \/ NetMineSeal(n)
    \/ NetConsensus(n)
    \/ NetFetch(n)
    \/ NetReturn(n)

NetNext == \E n \in Addresses : NetStep(n)

NetSpec == Init /\ [][NetNext]_vars

\* A handler that has started runs on: the search ends, the block is
\* sealed, the loop returns; a request sent to a server is handled once that
\* server takes requests.
NetFairness ==
    \A n \in Addresses :
        /\ WF_vars(NetMineSearch(n))
        /\ WF_vars(NetMineSeal(n))
        /\ SF_vars(NetFetch(n))
        /\ WF_vars(NetReturn(n))

NetFairSpec == NetSpec /\ NetFairness

\* ------------------------------------------------------------------ claims

MINING_FEE == Transaction("0", NODE_IDENTIFIER, 1)

\* C1: a chain made of the genesis block and blocks appended by /mine,
\* whatever transactions were posted in between, passes valid_chain.
C1_ChainValidityClosure == valid_chain(chain)

C1_Witness ==
    /\ call.op = "mine"
    /\ Len(chain) = 3
    /\ \E i \in 2..3 : Len(chain[i].transactions) > 1

\* C2: after resolve_conflicts, raised or not, the chain is the one it found
\* or a chain that passes valid_chain and is strictly longer.
C2_ReconcileMonotone ==
    call.op = "resolve_conflicts" =>
        \/ chain = old.chain
        \/ valid_chain(chain) /\ Len(chain) > Len(old.chain)

C2_Witness ==
    /\ call.op = "resolve_conflicts"
    /\ chain /= old.chain
    /\ Len(chain) = Len(old.chain) + 2

\* The responses under which the last resolve_conflicts call, started on
\* old.chain, ends the way it did.
Produces(responses) ==
    LET out == resolve_conflicts(old.chain, responses)
    IN  out.chain = chain /\ out.raised = call.raised /\ out.replaced = call.replaced

\* Every node answered: no transport error, no undecodable body.
EveryPeerResponds(responses) ==
    \A i \in DOMAIN responses :
        ~responses[i].error /\ (responses[i].status_code = 200 => responses[i].wellformed)

\* The fetched chains in the running: served with status 200, strictly
\* longer than the local chain, valid.
Qualifying(current, responses) ==
    {i \in DOMAIN responses :
        /\ ~responses[i].error
        /\ responses[i].status_code = 200
        /\ responses[i].wellformed
        /\ Len(responses[i].chain) > Len(current)
        /\ valid_chain(responses[i].chain)}

\* The fork-choice rule: the longest qualifying chain, the first of them in
\* iteration order; the local chain when none qualifies.
ForkChoice(current, responses) ==
    LET Q == Qualifying(current, responses) IN
    IF Q = {} THEN current
    ELSE LET longest == CHOOSE i \in Q :
                 /\ \A j \in Q : Len(responses[j].chain) <= Len(responses[i].chain)
                 /\ \A j \in Q : Len(responses[j].chain) = Len(responses[i].chain) => i <= j
         IN  responses[longest].chain

\* C3: when every node responds, resolve_conflicts leaves the chain the
\* fork-choice rule names: the longest valid fetched chain strictly longer
\* than the local one, the first such in iteration order, else the local one.
C3_ForkChoice ==
    call.op = "resolve_conflicts" =>
        \A responses \in ResponsesOf(nodes) :
            EveryPeerResponds(responses) /\ Produces(responses)
                => chain = ForkChoice(old.chain, responses)

\* Two different qualifying chains of the maximal length were fetched.
C3_Witness ==
    /\ call.op = "resolve_conflicts"
    /\ call.replaced
    /\ \E responses \in ResponsesOf(nodes) :
          /\ EveryPeerResponds(responses)
          /\ Produces(responses)
          /\ Qualifying(old.chain, responses) = {1, 2}
          /\ Len(responses[1].chain) = Len(responses[2].chain)
          /\ responses[1].chain /= responses[2].chain

Fails(response) ==
    response.error \/ response.status_code /= 200 \/ ~response.wellformed

Succeeds(response) == ~Fails(response)

\* C5: a node whose fetch fails is skipped: resolve_conflicts completes, and
\* leaves the chain and the return value it would without the failing nodes.
C5_PeerFailureSkipped ==
    call.op = "resolve_conflicts" =>
        /\ ~call.raised
        /\ \A responses \in ResponsesOf(nodes) :
              Produces(responses) =>
                  LET without == resolve_conflicts(old.chain, SelectSeq(responses, Succeeds))
                  IN  chain = without.chain /\ call.replaced = without.replaced

\* C6: when new_block returns, nothing is pending and the new block carries
\* the transactions that were pending at the call, in order; /mine calls it
\* with its fee appended to them.
C6_PendingDrained ==
    /\ call.op = "new_block" /\ ~call.raised =>
          /\ unverified_transactions = <<>>
          /\ Len(chain) = Len(old.chain) + 1
          /\ Last(chain).transactions = old.unverified_transactions
    /\ call.op = "mine" /\ ~call.raised =>
          /\ unverified_transactions = <<>>
          /\ Len(chain) = Len(old.chain) + 1
          /\ Last(chain).transactions = Append(old.unverified_transactions, MINING_FEE)

C6_Witness ==
    /\ call.op \in {"new_block", "mine"}
    /\ ~call.raised
    /\ old.unverified_transactions /= <<>>
    /\ unverified_transactions = <<>>

\* C7: new_block given no previous_hash returns a block whose previous_hash
\* is the hash of the block that was last.
C7_DefaultPreviousHash ==
    call.op = "new_block" /\ call.previous_hash = None =>
        /\ ~call.raised
        /\ Len(chain) = Len(old.chain) + 1
        /\ Last(chain).previous_hash = block_hash(Last(old.chain))

\* C8: the block at position N of the chain has index N.
C8_IndexInvariant == \A i \in DOMAIN chain : chain[i].index = i

\* C9: the chain is never empty, so last_block has a block to return.
C9_ChainNonEmpty == Len(chain) >= 1

C9_Witness ==
    /\ call.op = "resolve_conflicts"
    /\ Cardinality(nodes) = 2
    /\ Len(chain) = 1

\* C10: construction leaves exactly the genesis block and nothing pending,
\* and the first block of the chain stays a genesis block ever after.
C10_GenesisFirst ==
    /\ call.op = "__init__" =>
          /\ Len(chain) = 1
          /\ chain[1].index = 1
          /\ chain[1].transactions = <<>>
          /\ unverified_transactions = <<>>
    /\ Len(chain) >= 1 =>
          /\ chain[1].proof = GenesisProof
          /\ chain[1].previous_hash = GenesisPreviousHash

\* Whether the pair of blocks ending at position i of c passes: the link and
\* the proof.
PairPasses(c, i) ==
    /\ c[i].previous_hash = block_hash(c[i - 1])
    /\ valid_proof(c[i - 1].proof, c[i].proof)

\* The chain with index and timestamp of its last block changed, which no
\* hash of the chain covers.
Relabelled(c) ==
    IF c = <<>> THEN c ELSE [c EXCEPT ![Len(c)].index = 99, ![Len(c)].timestamp = 99]

\* C11: valid_chain is True exactly when every adjacent pair passes the
\* link and the proof; True on the empty and the one-block chain; and index
\* and timestamp count only through the hash of a block that has a successor.
C11_ValidChainIff ==
    eval.fn = "valid_chain" =>
        /\ eval.value <=> \A i \in 2..Len(eval.chain) : PairPasses(eval.chain, i)
        /\ Len(eval.chain) <= 1 => eval.value
        /\ valid_chain(Relabelled(eval.chain)) = eval.value

C11_Witness ==
    /\ eval.fn = "valid_chain"
    /\ Len(eval.chain) = 3
    /\ eval.value
    /\ eval.chain[2].index /= 2

\* C12: in a valid chain, a different previous_hash in a block that has a
\* predecessor, a proof that does not solve the puzzle after the
\* predecessor's, or a different proof in a first block that has a
\* successor, makes valid_chain False.
C12_TamperRejected ==
    eval.fn = "tampered" =>
        LET c == eval.original
            i == eval.position
            t == eval.chain
        IN  /\ eval.field = "previous_hash" /\ i >= 2
                  /\ t[i].previous_hash /= c[i].previous_hash => ~eval.value
            /\ eval.field = "proof" /\ i >= 2
                  /\ ~valid_proof(c[i - 1].proof, t[i].proof) => ~eval.value
            /\ eval.field = "proof" /\ i = 1 /\ Len(c) >= 2
                  /\ t[1].proof /= c[1].proof => ~eval.value

C12_Witness ==
    /\ eval.fn = "tampered"
    /\ eval.field = "proof"
    /\ eval.position = 3
    /\ ~valid_proof(eval.original[2].proof, eval.chain[3].proof)
    /\ ~eval.value

\* C13: proof_of_work returns the smallest natural number that solves the
\* puzzle after last_proof.
C13_ProofMinimal ==
    eval.fn = "proof_of_work" =>
        /\ eval.value >= 0
        /\ valid_proof(eval.last_proof, eval.value)
        /\ \A q \in 0..(eval.value - 1) : ~valid_proof(eval.last_proof, q)

C13_Witness ==
    /\ eval.fn = "proof_of_work"
    /\ eval.last_proof = GenesisProof
    /\ eval.value > 0

IsPrefix(s, t) == Len(s) <= Len(t) /\ SubSeq(t, 1, Len(s)) = s

\* C15: the chain changes only in new_block (also through /mine) and
\* resolve_conflicts; pending transactions go away only in new_block;
\* resolve_conflicts, register_node and last_block leave them as they are.
C15_Frame ==
    /\ chain /= old.chain =>
          call.op \in {"__init__", "new_block", "mine", "resolve_conflicts"}
    /\ ~IsPrefix(old.unverified_transactions, unverified_transactions) =>
          call.op \in {"new_block", "mine"}
    /\ call.op \in {"resolve_conflicts", "register_node", "last_block"} =>
          unverified_transactions = old.unverified_transactions

C15_Witness ==
    /\ call.op = "resolve_conflicts"
    /\ chain /= old.chain
    /\ unverified_transactions /= <<>>
    /\ \E i \in DOMAIN chain : \E j \in DOMAIN chain[i].transactions :
          chain[i].transactions[j] = unverified_transactions[1]

\* C16: a block that is on the chain keeps every field value, its
\* transactions included, through every step of every request; it leaves the
\* chain only in a step of resolve_conflicts, which replaces the whole chain.
C16_BlockImmutable ==
    [][\/ IsPrefix(Deref(heap), Deref(heap'))
       \/ HeapResolveConflicts]_vars

\* A block sealed with a transaction, and a transaction submitted after it.
C16_Witness ==
    /\ Len(heap.chain) >= 2
    /\ heap.lists[Last(heap.chain).transactions] /= <<>>
    /\ HeapPending /= <<>>
    /\ heap.handler = HeapIdle

\* Server n is in /mine between the read of the last block and new_block.
Searching(n) == network[n].mining /= NotRunning

\* C17: while a /mine request of a server is between its read of the last
\* block and new_block, the server can take a POST /transactions, and can
\* answer the GET /chain another server's /consensus is waiting for.
C17_SearchDoesNotBlock ==
    \A n \in Addresses :
        Searching(n) =>
            /\ TakenBy(Addresses) < MaxNetRequests => ENABLED NetNewTransaction(n)
            /\ \A m \in Addresses \ {n} :
                  (/\ network[m].resolving /= NotRunning
                   /\ network[m].resolving.peers /= <<>>
                   /\ Head(network[m].resolving.peers) = n) => ENABLED NetFetch(m)

\* C18: a /consensus request that has started returns.
C18_ReconcileReturns ==
    \A n \in Addresses :
        (network[n].resolving /= NotRunning) ~> (network[n].resolving = NotRunning)

\* C19: the chain of every server is valid, at every step of every request.
C19_NetworkChainsValid == \A n \in Addresses : valid_chain(network[n].chain)

\* A server adopted the chain another server sealed with /mine, and then
\* sealed a block of its own on top of it.
C19_Witness ==
    \E n, m \in Addresses :
        /\ n /= m
        /\ Len(network[n].chain) = 3
        /\ Last(network[n].chain[2].transactions) = Transaction("0", m, 1)
        /\ Last(network[n].chain[3].transactions) = Transaction("0", n, 1)
        /\ Idle(network[n])

\* How often transaction t occurs in a sequence, in the blocks of a chain,
\* and in a ledger: pending or sealed.
CountIn(transactions, t) ==
    Cardinality({i \in DOMAIN transactions : transactions[i] = t})

RECURSIVE SealedCopies(_, _)
SealedCopies(c, t) ==
    IF c = <<>> THEN 0
    ELSE SealedCopies(SubSeq(c, 1, Len(c) - 1), t) + CountIn(Last(c).transactions, t)

Copies(ledger, t) ==
    CountIn(ledger.unverified_transactions, t) + SealedCopies(ledger.chain, t)

TransfersOf(ledger) ==
    {ledger.unverified_transactions[i] : i \in DOMAIN ledger.unverified_transactions}
    \cup UNION {{ledger.chain[i].transactions[j] :
                    j \in DOMAIN ledger.chain[i].transactions} : i \in DOMAIN ledger.chain}

\* How many copies of t the last call accepted.
AcceptedByCall(t) ==
    IF call.op = "new_transaction" /\ t = Last(unverified_transactions) THEN 1
    ELSE IF call.op = "mine" /\ t = MINING_FEE THEN 1
    ELSE 0

====
